---- MODULE Spec2Model ----
(***************************************************************************)
(* Model of src/03-linear-regression-reg_ML.ipynb: the notebook that loads *)
(* a train/test split, fits every estimator of the `models` map, records   *)
(* its metrics, selects the estimator with the best test R2, ranks the     *)
(* winner's coefficients and pickles the winner.                           *)
(*                                                                         *)
(* Numbers.  A float is modelled as a pair <<n, d>>: the exact rational    *)
(* n/d in lowest terms when d > 0, and a non-finite float when d = 0       *)
(* (<<0,0>> is nan, <<1,0>> is inf, <<-1,0>> is -inf).                      *)
(*                                                                         *)
(* The estimators are library objects: what fit() learns is opaque and is  *)
(* modelled as a choice of the coefficient vector and the intercept.       *)
(***************************************************************************)
EXTENDS Integers, Sequences, FiniteSets, TLC

VARIABLES
  pc,               \* position of the run in the notebook
  models,           \* the `models` dict: sequence of [name, est] in insertion order
  X_train, y_train, X_test, y_test,   \* the loaded partitions
  i,                \* position of the `for name, model in models.items()` loop
  y_train_pred, y_test_pred,          \* loop-body globals
  train_metrics, test_metrics,        \* loop-body globals
  predictions,      \* the `predictions` dict: sequence of [name, value]
  results,          \* the `results` dict: sequence of [name, value]
  best_model_name,  \* key selected by max()
  best_model,       \* reference (object id) bound by best_model = models[best_model_name]
  feature_importance,  \* the sorted DataFrame: sequence of rows
  tie_order,        \* how this build's quicksort places equal keys (fixed per build)
  stdout,           \* what the cells printed, one record per print block
  artifact,         \* content of heart_disease_linear_regression.pkl
  fault             \* the uncaught exception that ended the run, if any

vars == <<pc, models, X_train, y_train, X_test, y_test, i, y_train_pred,
          y_test_pred, train_metrics, test_metrics, predictions, results,
          best_model_name, best_model, feature_importance, tie_order, stdout,
          artifact, fault>>

\* a name that is not bound yet: structured values, and strings
None == <<>>
Unset == "unset"

(***************************************************************************)
(* Bounds of the model.                                                    *)
(***************************************************************************)
MaxModels == 2       \* the map holds this many of the estimators at most
MaxLen == 2          \* longest sequence handed to calculate_metrics on its own
SqrtDigits == 10     \* np.sqrt is computed to 1/SqrtDigits of the denominator

CoefVals == {-1, 0, 1}     \* values a learned coefficient takes
InterceptVals == {0}       \* values a learned intercept takes
TargetVals == {0, 1, 2}    \* values a target cell takes

(***************************************************************************)
(* Float arithmetic.                                                       *)
(***************************************************************************)
Abs(x) == IF x < 0 THEN -x ELSE x

RECURSIVE GCD(_, _)
GCD(a, b) == IF b = 0 THEN a ELSE GCD(b, a % b)

NaN == <<0, 0>>
Inf == <<1, 0>>

IsFinite(x) == x[2] # 0
IsNaN(x) == x = NaN

\* the float n/d (d # 0), in lowest terms with a positive denominator
Rat(n, d) ==
  LET g == GCD(Abs(n), Abs(d))
      s == IF d < 0 THEN -1 ELSE 1
  IN  <<(s * n) \div g, (s * d) \div g>>

FromInt(n) == <<n, 1>>

FNeg(a) == <<-a[1], a[2]>>

FAdd(a, b) ==
  IF IsFinite(a) /\ IsFinite(b) THEN Rat(a[1] * b[2] + b[1] * a[2], a[2] * b[2])
  ELSE IF IsNaN(a) \/ IsNaN(b) THEN NaN
  ELSE IF IsFinite(b) THEN a
  ELSE IF IsFinite(a) THEN b
  ELSE IF a = b THEN a ELSE NaN

FSub(a, b) == FAdd(a, FNeg(b))

\* a / b for floats: numpy division, x/0 is inf or nan and nothing is raised
FDiv(a, b) ==
  IF IsNaN(a) \/ IsNaN(b) THEN NaN
  ELSE IF IsFinite(a) /\ IsFinite(b) THEN
         IF b[1] # 0 THEN Rat(a[1] * b[2], a[2] * b[1])
         ELSE IF a[1] = 0 THEN NaN
         ELSE IF a[1] > 0 THEN Inf ELSE FNeg(Inf)
  ELSE IF IsFinite(b) THEN (IF b[1] < 0 THEN FNeg(a) ELSE a)
  ELSE IF IsFinite(a) THEN FromInt(0)
  ELSE NaN

FMulInt(a, k) ==
  IF IsFinite(a) THEN Rat(a[1] * k, a[2])
  ELSE IF k = 0 THEN NaN
  ELSE IF k < 0 THEN FNeg(a) ELSE a

FAbs(a) == <<Abs(a[1]), a[2]>>

\* a > b as Python compares floats: every comparison with nan is False
FGreater(a, b) ==
  IF IsNaN(a) \/ IsNaN(b) THEN FALSE
  ELSE IF IsFinite(a) /\ IsFinite(b) THEN a[1] * b[2] > b[1] * a[2]
  ELSE IF IsFinite(a) THEN b[1] < 0
  ELSE IF IsFinite(b) THEN a[1] > 0
  ELSE a[1] > b[1]

\* largest r with r * r <= v
ISqrt(v) == CHOOSE r \in 0..v : r * r <= v /\ (r + 1) * (r + 1) > v

\* np.sqrt of a non-negative float, rounded down to the model's precision
NpSqrt(a) ==
  IF ~IsFinite(a) THEN a
  ELSE Rat(ISqrt(a[1] * a[2] * SqrtDigits * SqrtDigits), a[2] * SqrtDigits)

RECURSIVE SumSeq(_)
SumSeq(s) == IF s = <<>> THEN FromInt(0) ELSE FAdd(s[1], SumSeq(Tail(s)))

\* np.mean of a non-empty sequence of floats
NpMean(s) == FDiv(SumSeq(s), FromInt(Len(s)))

(***************************************************************************)
(* The metric functions of sklearn.metrics and calculate_metrics.          *)
(* Targets and predictions are integer vectors in the model.               *)
(***************************************************************************)
RECURSIVE SumInt(_)
SumInt(s) == IF s = <<>> THEN 0 ELSE s[1] + SumInt(Tail(s))

SquaredResiduals(y_true, y_pred) ==
  [k \in 1..Len(y_true) |-> (y_true[k] - y_pred[k]) * (y_true[k] - y_pred[k])]

mean_squared_error(y_true, y_pred) ==
  Rat(SumInt(SquaredResiduals(y_true, y_pred)), Len(y_true))

mean_absolute_error(y_true, y_pred) ==
  Rat(SumInt([k \in 1..Len(y_true) |-> Abs(y_true[k] - y_pred[k])]), Len(y_true))

\* Len(y) times the total sum of squares of y about its mean
ScaledTotalSS(y) ==
  Len(y) * SumInt([k \in 1..Len(y) |-> y[k] * y[k]]) - SumInt(y) * SumInt(y)

\* r2_score without the branch for a zero residual sum of squares
r2_score_no_perfect_branch(y_true, y_pred) ==
  LET n == Len(y_true)
      numerator == SumInt(SquaredResiduals(y_true, y_pred))
      denominator == ScaledTotalSS(y_true)
  IN  IF n < 2 THEN NaN
      ELSE IF denominator = 0 THEN FromInt(0)
      ELSE Rat(denominator - n * numerator, denominator)

\* sklearn.metrics.r2_score with its defaults (force_finite=True): nan for
\* fewer than two samples; 1.0 when the residual sum of squares is zero;
\* 0.0 when only the total sum of squares is zero; 1 - SSres/SStot otherwise
r2_score(y_true, y_pred) ==
  LET n == Len(y_true)
      numerator == SumInt(SquaredResiduals(y_true, y_pred))
      denominator == ScaledTotalSS(y_true)
  IN  IF n < 2 THEN NaN
      ELSE IF numerator = 0 THEN FromInt(1)
      ELSE IF denominator = 0 THEN FromInt(0)
      ELSE Rat(denominator - n * numerator, denominator)

\* MAPE that leaves out the rows whose true value is zero
Mape_guarded(y_true, y_pred) ==
  LET rows == {k \in 1..Len(y_true) : y_true[k] # 0}
      terms == [k \in 1..Len(y_true) |->
                  IF k \in rows
                  THEN FAbs(FDiv(FromInt(y_true[k] - y_pred[k]), FromInt(y_true[k])))
                  ELSE FromInt(0)]
  IN  IF rows = {} THEN FromInt(0)
      ELSE FMulInt(FDiv(SumSeq(terms), FromInt(Cardinality(rows))), 100)

\* np.mean(np.abs((y_true - y_pred) / y_true)) * 100
Mape(y_true, y_pred) ==
  FMulInt(NpMean([k \in 1..Len(y_true) |->
                    FAbs(FDiv(FromInt(y_true[k] - y_pred[k]), FromInt(y_true[k])))]),
          100)

calculate_metrics(y_true, y_pred) ==
  LET mse == mean_squared_error(y_true, y_pred)
      rmse == NpSqrt(mse)
      mae == mean_absolute_error(y_true, y_pred)
      r2 == r2_score(y_true, y_pred)
      mape == Mape(y_true, y_pred)
  IN  [R2 |-> r2, RMSE |-> rmse, MAE |-> mae, MAPE |-> mape]

(***************************************************************************)
(* Python and pandas helpers.                                              *)
(***************************************************************************)
\* a dict is a sequence of [name, value] records in insertion order
Keys(d) == [k \in 1..Len(d) |-> d[k].name]

HasKey(d, key) == \E k \in 1..Len(d) : d[k].name = key

Get(d, key) == d[CHOOSE k \in 1..Len(d) : d[k].name = key].value

\* an assignment that puts a new key first
DictSet_front(d, key, value) ==
  IF HasKey(d, key)
  THEN [k \in 1..Len(d) |-> IF d[k].name = key THEN [name |-> key, value |-> value] ELSE d[k]]
  ELSE <<[name |-> key, value |-> value]>> \o d

\* an assignment through one shared value object: every entry sees the new value
DictSet_aliased(d, key, value) ==
  [k \in 1..Len(d) |-> [name |-> d[k].name, value |-> value]]
  \o (IF HasKey(d, key) THEN <<>> ELSE <<[name |-> key, value |-> value]>>)

\* d[key] = value: a new key is appended, an existing one keeps its place
DictSet(d, key, value) ==
  IF HasKey(d, key)
  THEN [k \in 1..Len(d) |-> IF d[k].name = key THEN [name |-> key, value |-> value] ELSE d[k]]
  ELSE Append(d, [name |-> key, value |-> value])

\* max(keys, key=f) of Python: the first key whose f is not exceeded later,
\* a later key replaces the current one only when its f is strictly greater
RECURSIVE MaxFrom(_, _, _)
MaxFrom(keys, d, best) ==
  IF keys = <<>> THEN best
  ELSE MaxFrom(Tail(keys), d,
               IF FGreater(Get(d, keys[1])["Test R2"], Get(d, best)["Test R2"])
               THEN keys[1] ELSE best)

\* max() that lets a later key win a tie
RECURSIVE MaxFromLast(_, _, _)
MaxFromLast(keys, d, best) ==
  IF keys = <<>> THEN best
  ELSE MaxFromLast(Tail(keys), d,
                   IF FGreater(Get(d, best)["Test R2"], Get(d, keys[1])["Test R2"])
                   THEN best ELSE keys[1])

MaxByTestR2_last_wins(d) == MaxFromLast(Tail(Keys(d)), d, Keys(d)[1])

\* max(results.keys(), key=lambda k: results[k]['Test R2'])
MaxByTestR2(d) == MaxFrom(Tail(Keys(d)), d, Keys(d)[1])

\* round(n / d) to the nearest integer, ties to even (d > 0)
RoundHalfEven(n, d) ==
  LET q == n \div d
      r == n - q * d
  IN  IF 2 * r < d THEN q
      ELSE IF 2 * r > d THEN q + 1
      ELSE IF q % 2 = 0 THEN q ELSE q + 1

RECURSIVE Pow10(_)
Pow10(k) == IF k = 0 THEN 1 ELSE 10 * Pow10(k - 1)

\* f"{x:.<digits>f}": the number of 10^-digits units printed, or the float
\* itself when it is not finite ("nan", "inf")
Format(x, digits) ==
  IF IsFinite(x) THEN RoundHalfEven(x[1] * Pow10(digits), x[2]) ELSE x

RankIn(order, x) == CHOOSE k \in 1..Len(order) : order[k] = x

(***************************************************************************)
(* The inputs of the run.                                                  *)
(***************************************************************************)
\* the keys of the `models` literal, in its order
ModelNames == <<"Linear Regression", "Ridge", "Lasso", "ElasticNet">>

\* the values of the `models` literal: the objects its constructors return
Estimators == <<"LinearRegression()", "Ridge(alpha=1.0)", "Lasso(alpha=1.0)",
                "ElasticNet(alpha=1.0, l1_ratio=0.5)">>

\* a freshly constructed estimator; id is the identity of the Python object
Unfitted(k) == [id |-> Estimators[k], fits |-> 0, coef_ |-> None, intercept_ |-> None]

Min(a, b) == IF a < b THEN a ELSE b

\* every non-empty map over the first MaxModels estimators, in every order
ModelMaps ==
  LET ids == 1..Min(MaxModels, Len(ModelNames))
      orders == UNION {{s \in [1..n -> ids] : \A a, b \in 1..n : a # b => s[a] # s[b]}
                       : n \in 1..Cardinality(ids)}
  IN  {[k \in 1..Len(s) |-> [name |-> ModelNames[s[k]], value |-> Unfitted(s[k])]]
       : s \in orders}

\* X_train.columns
feature_names == <<"young_adults_pct", "middle_aged_pct">>

NFeatures == Len(feature_names)

\* the feature matrices and the training target read from X_train.csv,
\* X_test.csv and y_train.csv
XTrainData == << <<1, 0>>, <<1, 1>> >>
XTestData == << <<1, 1>>, <<0, 1>> >>
YTrainData == <<1, 2>>

\* the target column y_test.csv may hold
TestTargets == [1..Len(XTestData) -> TargetVals]

(***************************************************************************)
(* The estimator: fit learns coef_ and intercept_, predict is linear.      *)
(***************************************************************************)
Dot(row, coef) == SumInt([j \in 1..Len(row) |-> row[j] * coef[j]])

\* model.predict(X): X @ coef_ + intercept_
predict(est, X) == [r \in 1..Len(X) |-> Dot(X[r], est.coef_) + est.intercept_]

\* model.fit(X, y) with the learned parameters c and b
fit(est, c, b) == [est EXCEPT !.fits = @ + 1, !.coef_ = c, !.intercept_ = b]

(***************************************************************************)
(* Cell f36944e8: load the four CSV files.                                 *)
(***************************************************************************)
RangeDigits == 2     \* the .2f of the target range prints

\* y.min() and y.max()
SeqMin(y) == CHOOSE v \in {y[k] : k \in 1..Len(y)} : \A k \in 1..Len(y) : v <= y[k]
SeqMax(y) == CHOOSE v \in {y[k] : k \in 1..Len(y)} : \A k \in 1..Len(y) : v >= y[k]

NoPrint == [loaded |-> None, comparison |-> None, best |-> None,
            importance |-> None, summary |-> None, saved |-> None]

Init ==
  /\ pc = "load"
  /\ models \in ModelMaps
  /\ X_train = None /\ y_train = None /\ X_test = None /\ y_test = None
  /\ i = 0
  /\ y_train_pred = None /\ y_test_pred = None
  /\ train_metrics = None /\ test_metrics = None
  /\ predictions = <<>>
  /\ results = <<>>
  /\ best_model_name = Unset
  /\ best_model = Unset
  /\ feature_importance = None
  /\ tie_order = None
  /\ stdout = NoPrint
  /\ artifact = None
  /\ fault = Unset

\* an exception that is caught and noted, the run going on
Raise_and_continue(exc) ==
  /\ pc' = pc
  /\ fault' = exc

\* an uncaught exception ends the run
Raise(exc) ==
  /\ pc' = "aborted"
  /\ fault' = exc

LoadData ==
  /\ pc = "load"
  /\ \E ys \in TestTargets :
       /\ X_train' = XTrainData
       /\ X_test' = XTestData
       /\ y_train' = YTrainData
       /\ y_test' = ys
  /\ stdout' = [stdout EXCEPT !.loaded =
       [train_shape |-> <<Len(X_train'), Len(X_train'[1])>>,
        test_shape |-> <<Len(X_test'), Len(X_test'[1])>>,
        train_range |-> <<Format(FromInt(SeqMin(y_train')), RangeDigits),
                          Format(FromInt(SeqMax(y_train')), RangeDigits)>>,
        test_range |-> <<Format(FromInt(SeqMin(y_test')), RangeDigits),
                         Format(FromInt(SeqMax(y_test')), RangeDigits)>>,
        features |-> Len(X_train'[1])]]
  /\ pc' = "fit"
  /\ i' = 1
  /\ UNCHANGED <<models, y_train_pred, y_test_pred, train_metrics, test_metrics,
                 predictions, results, best_model_name, best_model,
                 feature_importance, tie_order, artifact, fault>>

\* pd.read_csv raises on a missing or malformed file
LoadDataRaises ==
  /\ pc = "load"
  /\ Raise("read_csv: FileNotFoundError")
  /\ UNCHANGED <<models, X_train, y_train, X_test, y_test, i, y_train_pred,
                 y_test_pred, train_metrics, test_metrics, predictions, results,
                 best_model_name, best_model, feature_importance, tie_order,
                 stdout, artifact>>

(***************************************************************************)
(* Cell cab8de11: the comparison loop, one estimator per iteration.        *)
(***************************************************************************)
name == models[i].name
model == models[i].value

LoopFrame == <<X_train, y_train, X_test, y_test, best_model_name, best_model,
               feature_importance, tie_order, stdout, artifact>>

\* model.fit(X_train, y_train), the learned coefficients lying in vals
FitWith(vals) ==
  /\ pc = "fit"
  /\ \E c \in [1..NFeatures -> vals], b \in InterceptVals :
       models' = [models EXCEPT ![i].value = fit(model, c, b)]
  /\ pc' = "predict"
  /\ UNCHANGED <<i, y_train_pred, y_test_pred, train_metrics, test_metrics,
                 predictions, results, fault>>
  /\ UNCHANGED LoopFrame

Fit == FitWith(CoefVals)

FitRaises ==
  /\ pc = "fit"
  /\ Raise("fit: ValueError")
  /\ UNCHANGED <<models, i, y_train_pred, y_test_pred, train_metrics,
                 test_metrics, predictions, results>>
  /\ UNCHANGED LoopFrame

\* y_train_pred = model.predict(X_train); y_test_pred = model.predict(X_test)
Predict ==
  /\ pc = "predict"
  /\ y_train_pred' = predict(model, X_train)
  /\ y_test_pred' = predict(model, X_test)
  /\ pc' = "record"
  /\ UNCHANGED <<models, i, train_metrics, test_metrics, predictions, results, fault>>
  /\ UNCHANGED LoopFrame

PredictRaises ==
  /\ pc = "predict"
  /\ Raise("predict: ValueError")
  /\ UNCHANGED <<models, i, y_train_pred, y_test_pred, train_metrics,
                 test_metrics, predictions, results>>
  /\ UNCHANGED LoopFrame

\* the record with the overfitting score clamped at zero
MetricRecord_clamped(train, test) ==
  ("Train R2" :> train.R2) @@ ("Test R2" :> test.R2) @@
  ("Test RMSE" :> test.RMSE) @@ ("Test MAE" :> test.MAE) @@
  ("Overfitting" :> IF FGreater(test.R2, train.R2) THEN FromInt(0)
                    ELSE FSub(train.R2, test.R2))

\* the value stored in results[name]
MetricRecord(train, test) ==
  ("Train R2" :> train.R2) @@ ("Test R2" :> test.R2) @@
  ("Test RMSE" :> test.RMSE) @@ ("Test MAE" :> test.MAE) @@
  ("Overfitting" :> FSub(train.R2, test.R2))

\* predictions[name] = ...; the two calculate_metrics calls; results[name] = ...;
\* then the loop moves to the next item or ends
Record ==
  /\ pc = "record"
  /\ predictions' = DictSet(predictions, name, y_test_pred)
  /\ train_metrics' = calculate_metrics(y_train, y_train_pred)
  /\ test_metrics' = calculate_metrics(y_test, y_test_pred)
  /\ results' = DictSet(results, name, MetricRecord(train_metrics', test_metrics'))
  /\ IF i < Len(models)
     THEN i' = i + 1 /\ pc' = "fit"
     ELSE i' = i /\ pc' = "select"
  /\ UNCHANGED <<models, y_train_pred, y_test_pred, fault>>
  /\ UNCHANGED LoopFrame

ReportDigits == 4    \* the .4f of the print formats
TopN == 10           \* feature_importance.head(10)

\* the rest of cell cab8de11: print the table, select the winner
ComparisonTable(res) ==
  [k \in 1..Len(res) |->
     [name |-> res[k].name,
      R2 |-> Format(res[k].value["Test R2"], ReportDigits),
      RMSE |-> Format(res[k].value["Test RMSE"], ReportDigits),
      Overfitting |-> Format(res[k].value["Overfitting"], ReportDigits)]]

SelectBest ==
  /\ pc = "select"
  /\ best_model_name' = MaxByTestR2(results)
  /\ best_model' = Get(models, best_model_name').id
  /\ stdout' = [stdout EXCEPT
                  !.comparison = ComparisonTable(results),
                  !.best = [name |-> best_model_name',
                            R2 |-> Format(Get(results, best_model_name')["Test R2"],
                                          ReportDigits)]]
  /\ pc' = "importance"
  /\ UNCHANGED <<models, X_train, y_train, X_test, y_test, i, y_train_pred,
                 y_test_pred, train_metrics, test_metrics, predictions, results,
                 feature_importance, tie_order, artifact, fault>>

(***************************************************************************)
(* Cell 1520b677: feature importance of the winner.                        *)
(***************************************************************************)
\* the object a reference points to
Deref(ref) == models[CHOOSE k \in 1..Len(models) : models[k].value.id = ref].value

\* pd.DataFrame({'Feature': ..., 'Coefficient': ..., 'Abs_Coefficient': ...})
DataFrame(names, coefficients) ==
  [j \in 1..Len(names) |->
     [Feature |-> names[j], Coefficient |-> coefficients[j],
      Abs_Coefficient |-> Abs(coefficients[j])]]

\* df.sort_values('Abs_Coefficient', ascending=False) with the default
\* kind='quicksort': rows in descending key order; quicksort is not a stable
\* sort, so rows with equal keys come out as the build's sort leaves them
\* (order), which need not be their original order
\* sort_values with the default ascending=True
sort_values_ascending(df, order) ==
  LET p == CHOOSE q \in Permutations(1..Len(df)) :
             \A a, b \in 1..Len(df) : a < b =>
               \/ df[q[a]].Abs_Coefficient < df[q[b]].Abs_Coefficient
               \/ /\ df[q[a]].Abs_Coefficient = df[q[b]].Abs_Coefficient
                  /\ RankIn(order, q[a]) < RankIn(order, q[b])
  IN  [k \in 1..Len(df) |-> df[p[k]]]

sort_values(df, order) ==
  LET p == CHOOSE q \in Permutations(1..Len(df)) :
             \A a, b \in 1..Len(df) : a < b =>
               \/ df[q[a]].Abs_Coefficient > df[q[b]].Abs_Coefficient
               \/ /\ df[q[a]].Abs_Coefficient = df[q[b]].Abs_Coefficient
                  /\ RankIn(order, q[a]) < RankIn(order, q[b])
  IN  [k \in 1..Len(df) |-> df[p[k]]]

\* df.head(n)
head(df, n) == SubSeq(df, 1, Min(n, Len(df)))

\* df[df['Coefficient'] < 0]: the rows that pass, in their order
RECURSIVE NegativeRows(_)
NegativeRows(df) ==
  IF df = <<>> THEN <<>>
  ELSE IF df[1].Coefficient < 0 THEN <<df[1]>> \o NegativeRows(Tail(df))
  ELSE NegativeRows(Tail(df))

Printed(row) ==
  [Feature |-> row.Feature, Coefficient |-> Format(FromInt(row.Coefficient), ReportDigits)]

\* the 'Strongest positive predictor' line prints row 0 of the sorted frame
StrongestPositive(fi) == IF Len(fi) > 0 THEN Printed(fi[1]) ELSE None

\* the line taken from the last row of the filtered frame instead of the first
StrongestNegative_last_row(fi) ==
  IF Len(fi) > 0 /\ Len(NegativeRows(fi)) > 0
  THEN Printed(NegativeRows(fi)[Len(NegativeRows(fi))])
  ELSE None

StrongestNegative(fi) ==
  IF Len(fi) > 0 /\ Len(NegativeRows(fi)) > 0 THEN Printed(NegativeRows(fi)[1]) ELSE None

ImportanceReport(fi, coefficients) ==
  [top |-> [k \in 1..Len(head(fi, TopN)) |->
              [Feature |-> fi[k].Feature, Coefficient |-> fi[k].Coefficient]],
   total |-> Len(feature_names),
   nonzero |-> Cardinality({j \in 1..Len(coefficients) :
                              FGreater(FromInt(Abs(coefficients[j])), Rat(1, 1000000))}),
   positive |-> Cardinality({j \in 1..Len(coefficients) : coefficients[j] > 0}),
   negative |-> Cardinality({j \in 1..Len(coefficients) : coefficients[j] < 0}),
   strongest_positive |-> StrongestPositive(fi),
   strongest_negative |-> StrongestNegative(fi)]

\* the body of the cell; the sort's placement of equal keys is drawn the
\* first time the sort runs and is the same at every later call
ImportanceCell ==
  /\ \E order \in Permutations(1..NFeatures) :
       /\ tie_order = None \/ tie_order = order
       /\ tie_order' = order
  /\ feature_importance' =
       sort_values(DataFrame(feature_names, Deref(best_model).coef_), tie_order')
  /\ stdout' = [stdout EXCEPT !.importance =
                  ImportanceReport(feature_importance', Deref(best_model).coef_)]
  /\ UNCHANGED <<models, X_train, y_train, X_test, y_test, i, y_train_pred,
                 y_test_pred, train_metrics, test_metrics, predictions, results,
                 best_model_name, best_model, artifact, fault>>

FeatureImportance ==
  /\ pc = "importance"
  /\ ImportanceCell
  /\ pc' = "summary"

\* the cell is executed again on the same kernel state
RerunFeatureImportance ==
  /\ pc = "summary"
  /\ ImportanceCell
  /\ pc' = pc

(***************************************************************************)
(* Cell cell-14: the final summary.  Cell aaa6551b: pickle the winner.     *)
(***************************************************************************)
FinalSummary ==
  /\ pc = "summary"
  /\ stdout' = [stdout EXCEPT !.summary =
       [best |-> best_model_name,
        train_samples |-> Len(X_train),
        test_samples |-> Len(X_test),
        features |-> Len(X_train[1]),
        R2 |-> Format(Get(results, best_model_name)["Test R2"], ReportDigits),
        RMSE |-> Format(Get(results, best_model_name)["Test RMSE"], ReportDigits),
        Overfitting |-> Format(Get(results, best_model_name)["Overfitting"],
                               ReportDigits)]]
  /\ pc' = "save"
  /\ UNCHANGED <<models, X_train, y_train, X_test, y_test, i, y_train_pred,
                 y_test_pred, train_metrics, test_metrics, predictions, results,
                 best_model_name, best_model, feature_importance, tie_order,
                 artifact, fault>>

\* pickle.dump(model, f): the loop variable, the last estimator of the map
SaveModel_loop_variable ==
  /\ pc = "save"
  /\ artifact' = model
  /\ stdout' = [stdout EXCEPT !.saved =
       [name |-> best_model_name,
        R2 |-> Format(Get(results, best_model_name)["Test R2"], ReportDigits)]]
  /\ pc' = "done"
  /\ UNCHANGED <<models, X_train, y_train, X_test, y_test, i, y_train_pred,
                 y_test_pred, train_metrics, test_metrics, predictions, results,
                 best_model_name, best_model, feature_importance, tie_order, fault>>

\* pickle.dump(best_model, f): the file holds a copy of the referenced object
SaveModel ==
  /\ pc = "save"
  /\ artifact' = Deref(best_model)
  /\ stdout' = [stdout EXCEPT !.saved =
       [name |-> best_model_name,
        R2 |-> Format(Get(results, best_model_name)["Test R2"], ReportDigits)]]
  /\ pc' = "done"
  /\ UNCHANGED <<models, X_train, y_train, X_test, y_test, i, y_train_pred,
                 y_test_pred, train_metrics, test_metrics, predictions, results,
                 best_model_name, best_model, feature_importance, tie_order, fault>>

\* open(model_path, 'wb') raises when the models directory is missing
SaveModelRaises ==
  /\ pc = "save"
  /\ Raise("open: FileNotFoundError")
  /\ UNCHANGED <<models, X_train, y_train, X_test, y_test, i, y_train_pred,
                 y_test_pred, train_metrics, test_metrics, predictions, results,
                 best_model_name, best_model, feature_importance, tie_order,
                 stdout, artifact>>

Next ==
  \/ LoadData \/ LoadDataRaises
  \/ Fit \/ FitRaises
  \/ Predict \/ PredictRaises
  \/ Record
  \/ SelectBest
  \/ FeatureImportance \/ RerunFeatureImportance
  \/ FinalSummary
  \/ SaveModel \/ SaveModelRaises

Spec == Init /\ [][Next]_vars

(***************************************************************************)
(* calculate_metrics called on its own, on every pair of equal-length      *)
(* sequences up to MaxLen.                                                 *)
(***************************************************************************)
MetricInputs == UNION {[1..n -> TargetVals] : n \in 1..MaxLen}

InitMetrics ==
  /\ pc = "call"
  /\ models = <<>>
  /\ X_train = None /\ y_train = None /\ X_test = None
  /\ y_test \in MetricInputs
  /\ y_test_pred \in {p \in MetricInputs : Len(p) = Len(y_test)}
  /\ i = 0
  /\ y_train_pred = None
  /\ train_metrics = None /\ test_metrics = None
  /\ predictions = <<>>
  /\ results = <<>>
  /\ best_model_name = Unset
  /\ best_model = Unset
  /\ feature_importance = None
  /\ tie_order = None
  /\ stdout = NoPrint
  /\ artifact = None
  /\ fault = Unset

\* test_metrics = calculate_metrics(y_test, y_test_pred)
CallCalculateMetrics ==
  /\ pc = "call"
  /\ test_metrics' = calculate_metrics(y_test, y_test_pred)
  /\ pc' = "returned"
  /\ UNCHANGED <<models, X_train, y_train, X_test, y_test, i, y_train_pred,
                 y_test_pred, train_metrics, predictions, results,
                 best_model_name, best_model, feature_importance, tie_order,
                 stdout, artifact, fault>>

NextMetrics == CallCalculateMetrics

SpecMetrics == InitMetrics /\ [][NextMetrics]_vars

(***************************************************************************)
(* The run with a single entry in the models dict and learned coefficients *)
(* of several magnitudes, so that the feature-importance cell ranks and    *)
(* filters coefficients that differ in size as well as in sign.            *)
(***************************************************************************)
MaxCoef == 3
WideCoefVals == (0 - MaxCoef)..MaxCoef

InitWide ==
  /\ Init
  /\ Len(models) = 1

FitWide == FitWith(WideCoefVals)

NextWide ==
  \/ LoadData
  \/ LoadDataRaises
  \/ FitWide
  \/ FitRaises
  \/ Predict
  \/ PredictRaises
  \/ Record
  \/ SelectBest
  \/ FeatureImportance
  \/ RerunFeatureImportance
  \/ FinalSummary
  \/ SaveModel
  \/ SaveModelRaises

SpecWide == InitWide /\ [][NextWide]_vars

(***************************************************************************)
(* Properties.                                                             *)
(***************************************************************************)
TestR2(k) == results[k].value["Test R2"]

Selected == best_model_name # Unset

WinnerPos == CHOOSE k \in 1..Len(results) : results[k].name = best_model_name

\* C1: the selected winner is an estimator of results whose test R2 no other
\* estimator exceeds, and no estimator earlier in iteration order has the
\* same test R2: among exact ties for the maximum the first one wins.
C1_WinnerIsFirstMax ==
  Selected =>
    /\ HasKey(results, best_model_name)
    /\ \A k \in 1..Len(results) : ~FGreater(TestR2(k), TestR2(WinnerPos))
    /\ \A k \in 1..Len(results) : k < WinnerPos => FGreater(TestR2(WinnerPos), TestR2(k))
    /\ stdout.best.name = best_model_name

\* two estimators tie exactly for the maximum and the first one was selected
C1_Witness ==
  /\ Selected
  /\ Len(results) >= 2
  /\ TestR2(1) = TestR2(2)
  /\ IsFinite(TestR2(1))
  /\ best_model_name = results[1].name

Fields == {"Train R2", "Test R2", "Test RMSE", "Test MAE", "Overfitting"}

IsNegative(x) == x[2] # 0 /\ x[1] < 0

\* C2: every recorded Overfitting is exactly the record's Train R2 minus its
\* Test R2, negative whenever Test R2 exceeds Train R2; the comparison table
\* and the final summary print that value rounded to four decimals, never
\* clamped to zero and never its absolute value.
C2_OverfittingIsDifference ==
  /\ \A k \in 1..Len(results) :
       LET r == results[k].value IN
         /\ r["Overfitting"] = FSub(r["Train R2"], r["Test R2"])
         /\ FGreater(r["Test R2"], r["Train R2"]) => IsNegative(r["Overfitting"])
  /\ stdout.comparison # None =>
       \A k \in 1..Len(results) :
         /\ stdout.comparison[k].Overfitting =
              Format(results[k].value["Overfitting"], ReportDigits)
         /\ IsNegative(results[k].value["Overfitting"]) =>
              stdout.comparison[k].Overfitting <= 0
  /\ stdout.summary # None =>
       /\ stdout.summary.Overfitting =
            Format(Get(results, best_model_name)["Overfitting"], ReportDigits)
       /\ IsNegative(Get(results, best_model_name)["Overfitting"]) =>
            stdout.summary.Overfitting < 0

\* the summary reports a winner whose test R2 exceeds its train R2
C2_Witness ==
  /\ stdout.summary # None
  /\ FGreater(Get(results, best_model_name)["Test R2"],
              Get(results, best_model_name)["Train R2"])
  /\ stdout.summary.Overfitting < 0

Ranked == feature_importance # None

\* the coefficient the winner learned for a feature
ColumnOf(feature) == CHOOSE j \in 1..NFeatures : feature_names[j] = feature
CoefOf(feature) == Deref(best_model).coef_[ColumnOf(feature)]

\* one row per input feature, each with its own coefficient
RankingIsPermutation ==
  /\ Len(feature_importance) = NFeatures
  /\ \A j \in 1..NFeatures : \E k \in 1..Len(feature_importance) :
       feature_importance[k] =
         [Feature |-> feature_names[j],
          Coefficient |-> Deref(best_model).coef_[j],
          Abs_Coefficient |-> Abs(Deref(best_model).coef_[j])]

RankingIsDescending ==
  \A k \in 1..(Len(feature_importance) - 1) :
    feature_importance[k].Abs_Coefficient >= feature_importance[k + 1].Abs_Coefficient

RankingKeepsTiesInColumnOrder ==
  \A a, b \in 1..Len(feature_importance) :
    (a < b /\ feature_importance[a].Abs_Coefficient = feature_importance[b].Abs_Coefficient)
      => ColumnOf(feature_importance[a].Feature) < ColumnOf(feature_importance[b].Feature)

\* C3 as stated: the ranking is a stable descending sort by absolute
\* coefficient (a permutation of the features with their own coefficients,
\* non-increasing absolute value, equal absolute values in column order), and
\* computing it again on the same input gives the same ranking.
C3_StableDescendingRanking ==
  /\ [](Ranked => RankingIsPermutation /\ RankingIsDescending
                    /\ RankingKeepsTiesInColumnOrder)
  /\ [][Ranked => feature_importance' = feature_importance]_vars

\* C3 amended: the ranking is a descending sort by absolute coefficient (a
\* permutation of the features with their own coefficients, non-increasing
\* absolute value); the order of features with equal absolute coefficient is
\* left to the sort; computing it again on the same input gives the same
\* ranking.
C3_DescendingRanking ==
  /\ [](Ranked => RankingIsPermutation /\ RankingIsDescending)
  /\ [][Ranked => feature_importance' = feature_importance]_vars

\* two features of equal absolute coefficient are ranked against column order
C3_Witness ==
  /\ Ranked
  /\ feature_importance[1].Abs_Coefficient = feature_importance[2].Abs_Coefficient
  /\ feature_importance[1].Coefficient # feature_importance[2].Coefficient
  /\ ColumnOf(feature_importance[1].Feature) > ColumnOf(feature_importance[2].Feature)

\* C4: the feature printed as 'Strongest positive predictor' has a strictly
\* positive coefficient, the largest of the winner's positive coefficients.
C4_StrongestPositiveIsPositive ==
  (stdout.importance # None /\ stdout.importance.strongest_positive # None) =>
    LET c == CoefOf(stdout.importance.strongest_positive.Feature) IN
      /\ c > 0
      /\ \A j \in 1..NFeatures : Deref(best_model).coef_[j] <= c

HasZero(y) == \E k \in 1..Len(y) : y[k] = 0

\* the record of estimator k computed from its own fitted parameters and the
\* partitions, by R2, RMSE and MAE alone
RecordOf(k) ==
  LET ptrain == predict(models[k].value, X_train)
      ptest == predict(models[k].value, X_test)
  IN  ("Train R2" :> r2_score(y_train, ptrain)) @@
      ("Test R2" :> r2_score(y_test, ptest)) @@
      ("Test RMSE" :> NpSqrt(mean_squared_error(y_test, ptest))) @@
      ("Test MAE" :> mean_absolute_error(y_test, ptest)) @@
      ("Overfitting" :> FSub(r2_score(y_train, ptrain), r2_score(y_test, ptest)))

\* the loop body has just stored a record
JustRecorded == pc \in {"fit", "select"} /\ Len(results) >= 1

ZeroTargetRecorded == y_test # None /\ HasZero(y_test) /\ Len(results) >= 1

EarlyFaults == {"read_csv: FileNotFoundError", "fit: ValueError", "predict: ValueError"}

\* C6: a fault raised by read_csv, fit or predict ends the run: nothing runs
\* after it (it is neither caught nor retried), no later estimator is fitted,
\* no winner is selected, no feature importance is computed or printed and no
\* artifact is written.
C6_FailureIsTerminal ==
  /\ [](/\ fault # Unset => pc = "aborted"
        /\ fault \in EarlyFaults =>
             /\ best_model_name = Unset /\ best_model = Unset
             /\ feature_importance = None
             /\ stdout.comparison = None /\ stdout.best = None
             /\ stdout.importance = None /\ stdout.summary = None
             /\ stdout.saved = None
             /\ artifact = None
             /\ \A k \in 1..Len(models) :
                  /\ k > i => models[k].value.fits = 0
                  /\ models[k].value.fits <= 1
             /\ fault = "fit: ValueError" => models[i].value.fits = 0
             /\ fault = "read_csv: FileNotFoundError" =>
                  (results = <<>> /\ \A k \in 1..Len(models) : models[k].value.fits = 0))
  /\ [][fault = Unset]_vars

\* the second estimator's fit raised after the first one was recorded
C6_Witness ==
  /\ fault = "fit: ValueError"
  /\ pc = "aborted"
  /\ i = 2
  /\ Len(results) = 1
  /\ artifact = None

InLoop == pc \in {"fit", "predict", "record"}
AfterLoop == pc \in {"select", "importance", "summary", "save", "done"}

\* C7: the keys of results are the estimators processed so far, in map order;
\* after the loop results has one record per estimator of the map; each record
\* has exactly the five fields; every processed estimator was fitted exactly
\* once and no other estimator was fitted.
C7_ResultsTrackLoop ==
  /\ Len(results) <= Len(models)
  /\ Keys(results) = [k \in 1..Len(results) |-> models[k].name]
  /\ \A k \in 1..Len(results) : DOMAIN results[k].value = Fields
  /\ InLoop => Len(results) = i - 1
  /\ AfterLoop => Len(results) = Len(models)
  /\ \A k \in 1..Len(models) :
       /\ k <= Len(results) => models[k].value.fits = 1
       /\ k > Len(results) + 1 => models[k].value.fits = 0
       /\ k = Len(results) + 1 =>
            /\ models[k].value.fits <= 1
            /\ pc = "fit" => models[k].value.fits = 0
            /\ pc \in {"predict", "record"} => models[k].value.fits = 1

\* the loop has ended on a map of at least two estimators
C7_Witness ==
  /\ pc = "select"
  /\ Len(models) >= 2
  /\ Len(results) = Len(models)
  /\ \A k \in 1..Len(models) : models[k].value.fits = 1

\* C8: the file holds the estimator stored under best_model_name, fitted once
\* and unchanged since its recorded metrics were computed; it is written only
\* after every estimator was evaluated and the winner selected; nothing is
\* written before the save step.
C8_ArtifactIsWinner ==
  /\ [](/\ artifact # None =>
             /\ pc = "done"
             /\ Selected
             /\ Len(results) = Len(models)
             /\ artifact = Get(models, best_model_name)
             /\ artifact.id = best_model
             /\ artifact.fits = 1
             /\ \A k \in 1..Len(results) : ~FGreater(TestR2(k), TestR2(WinnerPos))
             /\ Get(results, best_model_name) =
                  MetricRecord(calculate_metrics(y_train, predict(artifact, X_train)),
                               calculate_metrics(y_test, predict(artifact, X_test)))
        /\ pc # "done" => artifact = None)
  /\ [][Selected => models' = models]_vars

\* the saved winner is not the last estimator of a map of two or more
C8_Witness ==
  /\ pc = "done"
  /\ artifact # None
  /\ Len(models) >= 2
  /\ best_model_name = models[1].name
  /\ artifact = models[1].value

Returned == pc = "returned"
Perfect == Returned /\ y_test_pred = y_test

\* C9 as stated: on every non-empty perfect prediction calculate_metrics
\* returns R2 = 1.0, RMSE = 0 and MAE = 0.
C9_PerfectPrediction ==
  Perfect =>
    /\ test_metrics.R2 = FromInt(1)
    /\ test_metrics.RMSE = FromInt(0)
    /\ test_metrics.MAE = FromInt(0)

\* C9 amended: on every perfect prediction of at least two rows
\* calculate_metrics returns R2 = 1.0, RMSE = 0 and MAE = 0, also when all true
\* values are equal; on a single row RMSE and MAE are 0 and R2 is nan.
C9_PerfectPredictionTwoRows ==
  Perfect =>
    /\ test_metrics.RMSE = FromInt(0)
    /\ test_metrics.MAE = FromInt(0)
    /\ Len(y_test) >= 2 => test_metrics.R2 = FromInt(1)
    /\ Len(y_test) < 2 => IsNaN(test_metrics.R2)

\* a perfect prediction of two rows whose true values are all equal
C9_Witness ==
  /\ Perfect
  /\ Len(y_test) >= 2
  /\ \A k \in 1..Len(y_test) : y_test[k] = y_test[1]
  /\ test_metrics.R2 = FromInt(1)

\* C10: the record and the prediction vector an iteration stores are those
\* computed from its own estimator's fitted parameters and the partitions,
\* whatever else is in the map and wherever the estimator stands; within an
\* iteration the estimator is fitted before it predicts and predicts before it
\* is recorded; no step changes the record, the prediction vector or the
\* estimator of an earlier iteration.
C10_IterationsAreIndependent ==
  /\ [](/\ Len(predictions) = Len(results)
        /\ JustRecorded =>
             LET k == Len(results) IN
               /\ results[k].value = RecordOf(k)
               /\ predictions[k] =
                    [name |-> models[k].name, value |-> predict(models[k].value, X_test)]
        /\ pc = "predict" =>
             /\ model.fits = 1
             /\ ~HasKey(results, name) /\ ~HasKey(predictions, name)
        /\ pc = "record" =>
             /\ model.fits = 1
             /\ y_train_pred = predict(model, X_train)
             /\ y_test_pred = predict(model, X_test)
             /\ ~HasKey(results, name) /\ ~HasKey(predictions, name))
  /\ [][\A k \in 1..Len(results) :
          /\ results'[k] = results[k]
          /\ predictions'[k] = predictions[k]
          /\ models'[k] = models[k]]_vars

\* the second estimator is about to be recorded with a prediction vector
\* other than the first one's
C10_Witness ==
  /\ pc = "record"
  /\ i = 2
  /\ Len(results) = 1
  /\ y_test_pred # predictions[1].value
  /\ results[1].value = RecordOf(1)

(***************************************************************************)
(* C11: once the feature-importance cell has printed, the 'Strongest       *)
(* negative predictor' line is there exactly when the winning estimator    *)
(* has a strictly negative coefficient; the feature it names has the       *)
(* minimum of all the coefficients, and the value printed is that minimum  *)
(* to four decimals; the printed count of positive coefficients plus the   *)
(* printed count of negative ones is the number of features minus the      *)
(* number of coefficients that are exactly zero.                           *)
(***************************************************************************)
WinnerCoef == Deref(best_model).coef_
ZeroCount == Cardinality({j \in 1..NFeatures : WinnerCoef[j] = 0})
NegativeLine == stdout.importance.strongest_negative

C11_StrongestNegativeIsMinimum ==
  stdout.importance # None =>
    /\ (NegativeLine # None) <=> (\E j \in 1..NFeatures : WinnerCoef[j] < 0)
    /\ NegativeLine # None =>
         /\ NegativeLine.Feature \in {feature_names[j] : j \in 1..NFeatures}
         /\ CoefOf(NegativeLine.Feature) < 0
         /\ \A j \in 1..NFeatures : CoefOf(NegativeLine.Feature) <= WinnerCoef[j]
         /\ NegativeLine.Coefficient =
              Format(FromInt(CoefOf(NegativeLine.Feature)), ReportDigits)
    /\ stdout.importance.positive + stdout.importance.negative
         = NFeatures - ZeroCount
    /\ stdout.importance.total = NFeatures

\* the cell has printed for a winner with two negative coefficients of
\* different size, the smaller one in the first column
C11_Witness ==
  /\ stdout.importance # None
  /\ NegativeLine # None
  /\ WinnerCoef[1] < 0 /\ WinnerCoef[2] < WinnerCoef[1]
  /\ NegativeLine.Feature = feature_names[2]
  /\ stdout.importance.negative = 2

====
